---- MODULE Spec2Model ----
(***************************************************************************)
(* Kronos Eye (service.kronos.eye/service.py): a one-shot notification     *)
(* service.  Each run waits at the boot gate, loads a JSON state file,     *)
(* evaluates the full-moon check and the Saturn-ingress check, and saves   *)
(* the state through a temp file that is renamed over the state file.      *)
(*                                                                         *)
(* Values.  A JSON / Python value is a tuple whose head is its type:       *)
(*   <<"null">>            None / null                                     *)
(*   <<"int", n>>          the integer n                                   *)
(*   <<"float", n>>        the float n.0                                   *)
(*   <<"str", n>>          the string of the decimal digits of n           *)
(*   <<"str", y, m, d>>    the string "YYYY-MM-DD"                         *)
(* A date is <<y, m, d>>.  A dict is the sequence of its <<key, value>>    *)
(* items in insertion order.  A file's content is a sequence of tokens.    *)
(***************************************************************************)
EXTENDS Integers, Sequences, FiniteSets, TLC

(* ------------------------------------------------------------------ *)
(* Bounds of the model                                                 *)
(* ------------------------------------------------------------------ *)

\* Number of runs of main() in one behaviour.
MaxRuns == 2

\* is_full_moon is called on its own for every date of the years from
\* ProbeSpan years before the year of the reference date to ProbeSpan years
\* after it.
ProbeSpan == 2

(* ------------------------------------------------------------------ *)
(* Constants of the program                                            *)
(* ------------------------------------------------------------------ *)

\* SATURN_ZODIAC_CYCLE: year -> sign.
SATURN_ZODIAC_CYCLE ==
    [y \in {2023, 2025, 2028, 2030, 2033, 2035, 2038, 2040, 2043, 2045,
            2048, 2050, 2053, 2055, 2058} |->
        CASE y = 2023 -> "Pisces"
          [] y = 2025 -> "Aries"
          [] y = 2028 -> "Taurus"
          [] y = 2030 -> "Gemini"
          [] y = 2033 -> "Cancer"
          [] y = 2035 -> "Leo"
          [] y = 2038 -> "Virgo"
          [] y = 2040 -> "Libra"
          [] y = 2043 -> "Scorpio"
          [] y = 2045 -> "Sagittarius"
          [] y = 2048 -> "Capricorn"
          [] y = 2050 -> "Aquarius"
          [] y = 2053 -> "Pisces"
          [] y = 2055 -> "Aries"
          [] y = 2058 -> "Taurus"]

\* _boot_wait(60): the boot wait in seconds.
BootWaitSeconds == 60

\* xbmc.sleep(...) argument of the stagger, in milliseconds.
StaggerMs == 3000

\* The stagger the program documents (header and log line): 2.5 s.
DocumentedStaggerMs == 2500

\* lunar_cycle = 29.53058867 = LunarInt + LunarFracHi/10^4 + LunarFracLo/10^8
LunarInt == 29
LunarFracHi == 5305
LunarFracLo == 8867

\* abs(moon_age - 14.77) < 0.5, in units of 10^-8 day
FullAgeInt == 14
FullAgeFrac == 77000000
HalfWindow == 50000000

\* Units of the fixed-point arithmetic: 10^-4 and 10^-8 day.
E4 == 10 ^ 4
E8 == 10 ^ 8

(* ------------------------------------------------------------------ *)
(* datetime.date                                                       *)
(* ------------------------------------------------------------------ *)

IsLeap(y) == (y % 4 = 0) /\ ((y % 100 # 0) \/ (y % 400 = 0))

DaysInMonth(y, m) ==
    CASE m = 2 -> IF IsLeap(y) THEN 29 ELSE 28
      [] m \in {4, 6, 9, 11} -> 30
      [] OTHER -> 31

RECURSIVE DaysBeforeMonth(_, _)
DaysBeforeMonth(y, m) ==
    IF m = 1 THEN 0 ELSE DaysBeforeMonth(y, m - 1) + DaysInMonth(y, m - 1)

DaysBeforeYear(y) ==
    (y - 1) * 365 + ((y - 1) \div 4) - ((y - 1) \div 100) + ((y - 1) \div 400)

\* date.toordinal()
Ordinal(date) ==
    DaysBeforeYear(date[1]) + DaysBeforeMonth(date[1], date[2]) + date[3]

\* known_full_moon = datetime.date(2000, 1, 6)
known_full_moon == <<2000, 1, 6>>

\* (date_obj - known_full_moon).days
DaysPassed(date) == Ordinal(date) - Ordinal(known_full_moon)

\* date + datetime.timedelta(days=1)
NextDay(date) ==
    IF date[3] < DaysInMonth(date[1], date[2])
    THEN << date[1], date[2], date[3] + 1 >>
    ELSE IF date[2] < 12 THEN << date[1], date[2] + 1, 1 >>
    ELSE << date[1] + 1, 1, 1 >>

RECURSIVE AddDays(_, _)
\* date + datetime.timedelta(days=n), n >= 0
AddDays(date, n) == IF n = 0 THEN date ELSE AddDays(NextDay(date), n - 1)

\* str(today): "YYYY-MM-DD"
StrOfDate(date) == <<"str", date[1], date[2], date[3]>>

\* today.year, as a Python int
YearOf(date) == date[1]

(* ------------------------------------------------------------------ *)
(* is_full_moon                                                        *)
(* ------------------------------------------------------------------ *)

\* k * lunar_cycle as <<integer part, fraction in 10^-8>>, fraction in 0..E8-1.
CycleTimes(k) ==
    LET a  == k * LunarFracHi
        b  == k * LunarFracLo
        t  == (a % E4) * E4 + b
    IN  << k * LunarInt + (a \div E4) + (t \div E8), t % E8 >>

\* days - k * lunar_cycle as <<integer part, fraction in 10^-8>>.
AgeWith(days, k) ==
    LET c == CycleTimes(k)
    IN  IF c[2] = 0 THEN << days - c[1], 0 >>
                    ELSE << days - c[1] - 1, E8 - c[2] >>

\* 0 <= age < lunar_cycle
InCycle(age) ==
    /\ age[1] >= 0
    /\ \/ age[1] < LunarInt
       \/ age[1] = LunarInt /\ age[2] < LunarFracHi * E4 + LunarFracLo

\* Mutant of MoonAge: the remainder of the absolute value of days.
MoonAgeOfAbs(days) ==
    LET n  == IF days < 0 THEN 0 - days ELSE days
        k0 == (n * 100) \div 2953
        k  == CHOOSE k \in (k0 - 2)..(k0 + 2) : InCycle(AgeWith(n, k))
    IN  AgeWith(n, k)

\* moon_age = days_passed % lunar_cycle (Python's %: the result has the sign
\* of the divisor, so it lies in [0, lunar_cycle) for negative days too).
MoonAge(days) ==
    LET k0 == (days * 100) \div 2953
        k  == CHOOSE k \in (k0 - 2)..(k0 + 2) : InCycle(AgeWith(days, k))
    IN  AgeWith(days, k)

\* Mutant of AgeIsFull: the difference is taken without abs().
AgeIsFullNoAbs(age) ==
    (age[1] - FullAgeInt) * E8 + (age[2] - FullAgeFrac) < HalfWindow

\* Mutant of AgeIsFull: the window is 0.6 day on each side.
AgeIsFullWide(age) ==
    LET diff == (age[1] - FullAgeInt) * E8 + (age[2] - FullAgeFrac)
    IN  (IF diff < 0 THEN 0 - diff ELSE diff) < HalfWindow + (HalfWindow \div 5)

\* abs(moon_age - 14.77) < 0.5
AgeIsFull(age) ==
    LET diff == (age[1] - FullAgeInt) * E8 + (age[2] - FullAgeFrac)
    IN  (IF diff < 0 THEN 0 - diff ELSE diff) < HalfWindow

is_full_moon(date) == AgeIsFull(MoonAge(DaysPassed(date)))

(* ------------------------------------------------------------------ *)
(* dict and json                                                       *)
(* ------------------------------------------------------------------ *)

NoneVal == <<"null">>

IsNumber(v) == v[1] \in {"int", "float"}

\* Python's ==  on the values above: an int equals the float of the same
\* number; otherwise values are equal when they are the same value.
PyEq(a, b) ==
    IF IsNumber(a) /\ IsNumber(b) THEN a[2] = b[2] ELSE a = b

Keys(d) == { d[i][1] : i \in DOMAIN d }

\* dict.get(key): the value, or None
Get(d, key) ==
    IF key \in Keys(d)
    THEN d[CHOOSE i \in DOMAIN d : d[i][1] = key][2]
    ELSE NoneVal

\* d[key] = val: an existing key keeps its place, a new key goes last
Put(d, key, val) ==
    IF key \in Keys(d)
    THEN [i \in DOMAIN d |-> IF d[i][1] = key THEN <<key, val>> ELSE d[i]]
    ELSE Append(d, <<key, val>>)

LBrace == <<"{">>
RBrace == <<"}">>
LBracket == <<"[">>
RBracket == <<"]">>
Space == <<"ws">>
Item(key, val) == <<"kv", key, val>>

\* Mutant of Dumps: only the two keys main knows are written.
DumpsKnownOnly(d) ==
    <<LBrace>>
       \o SelectSeq([i \in DOMAIN d |-> Item(d[i][1], d[i][2])],
                    LAMBDA t : t[2] \in {"last_fullmoon", "last_saturn_year"})
       \o <<RBrace>>

\* Mutant of Dumps: the items are written last first.
DumpsReversed(d) ==
    <<LBrace>>
       \o [i \in DOMAIN d |->
             Item(d[Len(d) + 1 - i][1], d[Len(d) + 1 - i][2])]
       \o <<RBrace>>

\* json.dump(data): the tokens written, in order
Dumps(d) ==
    <<LBrace>> \o [i \in DOMAIN d |-> Item(d[i][1], d[i][2])] \o <<RBrace>>

RECURSIVE Strip(_)
\* the tokens of a text that are not whitespace
Strip(text) ==
    IF text = <<>> THEN <<>>
    ELSE IF Head(text) = Space THEN Strip(Tail(text))
    ELSE <<Head(text)>> \o Strip(Tail(text))

RECURSIVE DictOf(_)
\* the dict of a sequence of items: a repeated key keeps its first place
\* and its last value
DictOf(items) ==
    IF items = <<>> THEN <<>>
    ELSE LET last == items[Len(items)]
         IN  Put(DictOf(SubSeq(items, 1, Len(items) - 1)), last[2], last[3])

\* json.load accepts the text as an object
IsObjectText(text) ==
    LET s == Strip(text)
    IN  /\ Len(s) >= 2
        /\ s[1] = LBrace
        /\ s[Len(s)] = RBrace
        /\ \A i \in 2..(Len(s) - 1) : s[i][1] = "kv"

\* json.load accepts the text as a list (valid JSON, not an object)
IsListText(text) == Strip(text) = <<LBracket, RBracket>>

\* json.load(f) of an object text
Loads(text) ==
    LET s == Strip(text)
    IN  DictOf(SubSeq(s, 2, Len(s) - 1))

(* ------------------------------------------------------------------ *)
(* The file system and the clock                                       *)
(* ------------------------------------------------------------------ *)

\* DATA_FILE, and tmp = DATA_FILE + ".tmp" of save_status
DATA_FILE == "saturn_moon_status.txt"
TmpOfDataFile == "saturn_moon_status.txt.tmp"

\* Mutant of TmpFile: save_status writes the state file in place.
TmpFileInPlace == DATA_FILE

\* The file save_status opens for writing.
TmpFile == TmpOfDataFile

NoFile == [exists |-> FALSE, text |-> <<>>]
FileOf(text) == [exists |-> TRUE, text |-> text]

\* The dates datetime.datetime.now().date() takes, in the order the wall
\* clock reaches them: a full moon outside the table's years, an ordinary
\* day and two full moons of 2025 (a year of the table), a full moon of 2026.
DateSeq ==
    << <<2024, 12, 15>>, <<2025, 1, 13>>, <<2025, 1, 14>>, <<2025, 2, 12>>,
       <<2026, 1, 3>> >>

NoDate == <<0, 0, 0>>

\* The state files a first run may find: the empty object, texts with
\* unknown keys, values of other types and other formatting, a text cut
\* short, and a text that is valid JSON and not an object.
InitTexts ==
    { <<LBrace, RBrace>>,
      <<LBrace, Space, Item("other", <<"int", 7>>), Space,
        Item("last_saturn_year", <<"float", 2025>>), RBrace>>,
      <<LBrace, Item("last_saturn_year", <<"str", 2025>>),
        Item("last_fullmoon", <<"int", 7>>), RBrace>>,
      <<LBrace, Item("other", <<"int", 7>>)>>,
      <<LBracket, RBracket>> }

VARIABLES
    dir,             \* ADDON_DATA_PATH exists
    fs,              \* file name -> [exists, text]
    clock,           \* index in DateSeq of the wall clock's date
    runs,            \* number of runs of main() started
    pc,              \* where the current run of main() is
    today,           \* main: today
    status,          \* main: status
    updated,         \* main: updated
    fullmoon_fired,  \* main: fullmoon_fired
    log,             \* history: what this run did, in order
    sent,            \* history: the notifications of all runs, in order
    loaded,          \* history: what load_status returned in this run
    fsAtStart,       \* history: the files when this run started
    fsAtSave,        \* history: the files when save_status was called
    fs0,             \* history: the files before the first run
    faults,          \* history: the kinds of failure that have happened
    probe            \* a call of a function on its own: its input and result

vars ==
    << dir, fs, clock, runs, pc, today, status, updated, fullmoon_fired,
       log, sent, loaded, fsAtStart, fsAtSave, fs0, faults, probe >>

locals == << today, status, updated, fullmoon_fired, loaded >>

Event(ev, arg, ok) == [ev |-> ev, arg |-> arg, ok |-> ok]

\* No function has been called on its own.
NoProbe ==
    [called |-> FALSE, date |-> NoDate, hours |-> 0, asDate |-> TRUE,
     days |-> 0, age |-> <<0, 0>>, full |-> FALSE]

\* The files, the clock and main's variables before the first run, the
\* state file being one of `files`.
InitFrom(files) ==
    /\ \E d \in BOOLEAN :
         \E f \in files :
            /\ (f.exists => d)
            /\ dir = d
            /\ fs = [n \in {DATA_FILE, TmpOfDataFile} |->
                        IF n = DATA_FILE THEN f ELSE NoFile]
    /\ clock = 1
    /\ runs = 0
    /\ pc = "idle"
    /\ today = NoDate
    /\ status = <<>>
    /\ updated = FALSE
    /\ fullmoon_fired = FALSE
    /\ log = <<>>
    /\ sent = <<>>
    /\ loaded = <<>>
    /\ fsAtStart = fs
    /\ fsAtSave = fs
    /\ fs0 = fs
    /\ faults = {}

InitMain == InitFrom({NoFile} \cup { FileOf(t) : t \in InitTexts })

Init == InitMain /\ probe = NoProbe

(* ------------------------------------------------------------------ *)
(* main                                                                *)
(* ------------------------------------------------------------------ *)

\* The host starts the service: a new process, main() is entered.  The wall
\* clock shows the date of the previous start or a later one; a run reads
\* it once, in Load.
Start ==
    /\ pc \in {"idle", "done", "aborted", "crashed"}
    /\ runs < MaxRuns
    /\ runs' = runs + 1
    /\ \E c \in clock..Len(DateSeq) : clock' = c
    /\ pc' = "boot"
    /\ today' = NoDate
    /\ status' = <<>>
    /\ loaded' = <<>>
    /\ updated' = FALSE
    /\ fullmoon_fired' = FALSE
    /\ log' = <<>>
    /\ fsAtStart' = fs
    /\ fsAtSave' = fs
    /\ UNCHANGED << dir, fs, sent, fs0, probe, faults >>

\* Mutant of BootAbort: the abort is logged and SystemExit is not raised.
BootAbortGoesOn ==
    /\ pc = "boot"
    /\ pc' = "ensure"
    /\ log' = Append(log, Event("abort", <<BootWaitSeconds>>, TRUE))
    /\ UNCHANGED << dir, fs, clock, runs, locals, sent, fsAtStart, fsAtSave,
                    fs0, probe, faults >>

\* _boot_wait: mon.waitForAbort(seconds) returned True; raise SystemExit.
BootAbort ==
    /\ pc = "boot"
    /\ pc' = "aborted"
    /\ log' = Append(log, Event("abort", <<BootWaitSeconds>>, TRUE))
    /\ UNCHANGED << dir, fs, clock, runs, locals, sent, fsAtStart, fsAtSave,
                    fs0, probe, faults >>

\* _boot_wait: the wait timed out; main goes on.
BootTimeout ==
    /\ pc = "boot"
    /\ pc' = "ensure"
    /\ UNCHANGED << dir, fs, clock, runs, locals, log, sent, fsAtStart, fsAtSave,
                    fs0, probe, faults >>

\* _boot_wait(60)
BootWait == BootAbort \/ BootTimeout

\* _ensure_dirs(): os.makedirs when the directory is missing; a failure is
\* logged and swallowed.
EnsureDirs ==
    /\ pc = "ensure"
    /\ pc' = "load"
    /\ \E ok \in BOOLEAN :
          /\ (dir => ok)
          /\ dir' = (dir \/ ok)
    /\ UNCHANGED << fs, clock, runs, locals, log, sent, fsAtStart, fsAtSave,
                    fs0, probe, faults >>

\* Mutant of LoadStatus: whatever items the text holds are returned, with
\* no error for a text that is not an object.
LoadStatusLenient(file, readOk) ==
    IF file.exists
    THEN DictOf(SelectSeq(file.text, LAMBDA t : t[1] = "kv"))
    ELSE <<>>

\* load_status(): readOk is whether open() and read() succeed.
LoadStatus(file, readOk) ==
    IF file.exists /\ readOk /\ IsObjectText(file.text)
    THEN Loads(file.text)
    ELSE <<>>

\* status = load_status(); today = now.date()
Load ==
    /\ pc = "load"
    /\ pc' = "moon"
    /\ \E readOk \in BOOLEAN :
          /\ (~fs[DATA_FILE].exists => readOk)
          /\ status' = LoadStatus(fs[DATA_FILE], readOk)
          /\ faults' = IF readOk THEN faults ELSE faults \cup {"load"}
          /\ log' = Append(log, Event("load", <<>>, readOk))
    /\ loaded' = status'
    /\ today' = DateSeq[clock]
    /\ UNCHANGED << dir, fs, clock, runs, updated, fullmoon_fired, sent,
                    fsAtStart, fsAtSave, fs0, probe >>

\* notify(title, message, icon_file): the toast request; ok is whether
\* xbmc.executebuiltin went through (a failure is logged and swallowed).
Notify(lg, what, ok) == Append(lg, Event("notify", what, ok))

\* xbmc.sleep(ms)
Sleep(lg, ms) == Append(lg, Event("sleep", <<ms>>, TRUE))

\* Mutant of MoonDue: last_fullmoon is not consulted.
MoonDueNoMemo(st, date) == is_full_moon(date)

\* Mutant of MoonDue: the phase is not consulted.
MoonDueAnyPhase(st, date) ==
    ~PyEq(Get(st, "last_fullmoon"), StrOfDate(date))

\* last_full != str(today) and is_full_moon(today)
MoonDue(st, date) ==
    /\ ~PyEq(Get(st, "last_fullmoon"), StrOfDate(date))
    /\ is_full_moon(date)

\* Mutant of MoonCheck: the moon block records the year too.
MoonCheckStampsYear ==
    /\ pc = "moon"
    /\ pc' = "saturn"
    /\ IF MoonDue(status, today)
       THEN /\ \E ok \in BOOLEAN :
                 log' = Notify(log, <<"moon", today>>, ok)
            /\ sent' = Append(sent, <<"moon", today>>)
            /\ status' = Put(Put(status, "last_fullmoon", StrOfDate(today)),
                             "last_saturn_year", <<"int", YearOf(today)>>)
            /\ updated' = TRUE
            /\ fullmoon_fired' = TRUE
       ELSE UNCHANGED << log, sent, status, updated, fullmoon_fired >>
    /\ UNCHANGED << dir, fs, clock, runs, today, loaded, fsAtStart,
                    fsAtSave, fs0, probe, faults >>

\* Mutant of MoonCheck: last_fullmoon is recorded whether or not the toast
\* is due.
MoonCheckAlwaysRecords ==
    /\ pc = "moon"
    /\ pc' = "saturn"
    /\ IF MoonDue(status, today)
       THEN /\ \E ok \in BOOLEAN :
                 log' = Notify(log, <<"moon", today>>, ok)
            /\ sent' = Append(sent, <<"moon", today>>)
            /\ fullmoon_fired' = TRUE
       ELSE UNCHANGED << log, sent, fullmoon_fired >>
    /\ status' = Put(status, "last_fullmoon", StrOfDate(today))
    /\ updated' = TRUE
    /\ UNCHANGED << dir, fs, clock, runs, today, loaded, fsAtStart,
                    fsAtSave, fs0, probe, faults >>

\* The full-moon block of main.
MoonCheck ==
    /\ pc = "moon"
    /\ pc' = "saturn"
    /\ IF MoonDue(status, today)
       THEN /\ \E ok \in BOOLEAN :
                 log' = Notify(log, <<"moon", today>>, ok)
            /\ sent' = Append(sent, <<"moon", today>>)
            /\ status' = Put(status, "last_fullmoon", StrOfDate(today))
            /\ updated' = TRUE
            /\ fullmoon_fired' = TRUE
       ELSE UNCHANGED << log, sent, status, updated, fullmoon_fired >>
    /\ UNCHANGED << dir, fs, clock, runs, today, loaded, fsAtStart,
                    fsAtSave, fs0, probe, faults >>

\* Mutant of SaturnDue: last_saturn_year is not consulted.
SaturnDueNoMemo(st, year) == year \in DOMAIN SATURN_ZODIAC_CYCLE

\* Mutant of SaturnDue: the year is compared as a string.
SaturnDueStrYear(st, year) ==
    /\ year \in DOMAIN SATURN_ZODIAC_CYCLE
    /\ ~PyEq(Get(st, "last_saturn_year"), <<"str", year>>)

\* current_year in SATURN_ZODIAC_CYCLE and
\* status.get('last_saturn_year') != current_year
SaturnDue(st, year) ==
    /\ year \in DOMAIN SATURN_ZODIAC_CYCLE
    /\ ~PyEq(Get(st, "last_saturn_year"), <<"int", year>>)

\* Mutant of Stagger: the sleep does not depend on fullmoon_fired.
StaggerAlways(lg, fired) == Sleep(lg, StaggerMs)

\* if fullmoon_fired: xbmc.sleep(...)
Stagger(lg, fired) == IF fired THEN Sleep(lg, StaggerMs) ELSE lg

\* The Saturn block of main.
SaturnCheck ==
    /\ pc = "saturn"
    /\ pc' = "finish"
    /\ IF SaturnDue(status, YearOf(today))
       THEN /\ \E ok \in BOOLEAN :
                 log' = Notify(Stagger(log, fullmoon_fired),
                               <<"saturn", YearOf(today),
                                 SATURN_ZODIAC_CYCLE[YearOf(today)]>>, ok)
            /\ sent' = Append(sent, <<"saturn", YearOf(today)>>)
            /\ status' = Put(status, "last_saturn_year",
                             <<"int", YearOf(today)>>)
            /\ updated' = TRUE
       ELSE UNCHANGED << log, sent, status, updated >>
    /\ UNCHANGED << dir, fs, clock, runs, today, fullmoon_fired, loaded,
                    fsAtStart, fsAtSave, fs0, probe, faults >>

\* Mutant of Finish: save_status is called whether or not `updated` is set.
FinishAlwaysSaves ==
    /\ pc = "finish"
    /\ pc' = "save_open"
    /\ log' = Append(log, Event("save", <<>>, TRUE))
    /\ fsAtSave' = fs
    /\ UNCHANGED << dir, fs, clock, runs, locals, sent, fsAtStart, fs0, probe,
                    faults >>

\* if updated: save_status(status) is called; else main is done.
Finish ==
    /\ pc = "finish"
    /\ IF updated
       THEN /\ pc' = "save_open"
            /\ log' = Append(log, Event("save", <<>>, TRUE))
            /\ fsAtSave' = fs
       ELSE /\ pc' = "done"
            /\ UNCHANGED << log, fsAtSave >>
    /\ UNCHANGED << dir, fs, clock, runs, locals, sent, fsAtStart, fs0, probe,
                    faults >>

(* ------------------------------------------------------------------ *)
(* save_status                                                         *)
(* ------------------------------------------------------------------ *)

\* Mutant of SaveRaise: save_status has no except clause and the failure
\* leaves main.
SaveRaisePropagates ==
    /\ pc' = "raised"
    /\ faults' = faults \cup {"save"}
    /\ log' = Append(log, Event("save_error", <<pc>>, FALSE))
    /\ UNCHANGED << dir, clock, runs, locals, sent, fsAtStart, fsAtSave,
                    fs0, probe >>

\* A step of save_status raised: the except clause is entered.
SaveRaise ==
    /\ pc' = "save_except"
    /\ faults' = faults \cup {"save"}
    /\ log' = Append(log, Event("save_error", <<pc>>, FALSE))
    /\ UNCHANGED << dir, clock, runs, locals, sent, fsAtStart, fsAtSave,
                    fs0, probe >>

\* open(tmp, 'w'): creates or truncates the temp file; fails when the
\* directory is missing, and may fail otherwise.
SaveOpen ==
    /\ pc = "save_open"
    /\ \/ /\ dir
          /\ fs' = [fs EXCEPT ![TmpFile] = FileOf(<<>>)]
          /\ pc' = "save_write"
          /\ UNCHANGED << dir, clock, runs, locals, log, sent, fsAtStart,
                          fsAtSave, fs0, probe, faults >>
       \/ /\ SaveRaise
          /\ UNCHANGED fs

\* json.dump(data, f); f.flush(): the text reaches the temp file in two
\* pieces, all but the closing brace and then the closing brace; a write may
\* fail (disk full) and leave what was written.
SaveWrite ==
    /\ pc = "save_write"
    /\ Len(fs[TmpFile].text) < Len(Dumps(status))
    /\ \/ /\ fs' = [fs EXCEPT ![TmpFile].text =
                       IF @ = <<>>
                       THEN SubSeq(Dumps(status), 1, Len(Dumps(status)) - 1)
                       ELSE Dumps(status)]
          /\ UNCHANGED << dir, clock, runs, pc, locals, log, sent, fsAtStart,
                          fsAtSave, fs0, probe, faults >>
       \/ /\ SaveRaise
          /\ UNCHANGED fs

\* os.fsync(f.fileno()), and the close at the end of the with block.
SaveFsync ==
    /\ pc = "save_write"
    /\ Len(fs[TmpFile].text) = Len(Dumps(status))
    /\ \/ /\ pc' = "save_replace"
          /\ UNCHANGED << dir, fs, clock, runs, locals, log, sent, fsAtStart,
                          fsAtSave, fs0, probe, faults >>
       \/ /\ SaveRaise
          /\ UNCHANGED fs

\* os.replace(tmp, DATA_FILE): one step; the temp file becomes the state file.
SaveReplace ==
    /\ pc = "save_replace"
    /\ \/ /\ fs' = [n \in DOMAIN fs |->
                      IF n = DATA_FILE THEN fs[TmpFile]
                      ELSE IF n = TmpFile THEN NoFile
                      ELSE fs[n]]
          /\ pc' = "done"
          /\ log' = Append(log, Event("saved", <<>>, TRUE))
          /\ UNCHANGED << dir, clock, runs, locals, sent, fsAtStart,
                          fsAtSave, fs0, probe, faults >>
       \/ /\ SaveRaise
          /\ UNCHANGED fs

\* Mutant of SaveCleanup: after the cleanup the save is tried again.
SaveCleanupRetries ==
    /\ pc = "save_except"
    /\ pc' = "save_open"
    /\ \E ok \in BOOLEAN :
          /\ (~fs[TmpFile].exists => ok)
          /\ fs' = IF ok THEN [fs EXCEPT ![TmpFile] = NoFile] ELSE fs
          /\ log' = Append(log, Event("cleanup", <<>>, ok))
    /\ UNCHANGED << dir, clock, runs, locals, sent, fsAtStart, fsAtSave,
                    fs0, probe, faults >>

\* except: if os.path.exists(tmp): os.remove(tmp); a failure of the removal
\* is passed over.  save_status returns and main ends.
SaveCleanup ==
    /\ pc = "save_except"
    /\ pc' = "done"
    /\ \E ok \in BOOLEAN :
          /\ (~fs[TmpFile].exists => ok)
          /\ fs' = IF ok THEN [fs EXCEPT ![TmpFile] = NoFile] ELSE fs
          /\ log' = Append(log, Event("cleanup", <<>>, ok))
    /\ UNCHANGED << dir, clock, runs, locals, sent, fsAtStart, fsAtSave,
                    fs0, probe, faults >>

\* Mutant of MoonBlockRaise: the moon block has no except clause and the
\* failure leaves main.
MoonBlockRaisePropagates(point) ==
    /\ pc = "moon"
    /\ pc' = "raised"
    /\ log' = Append(log, Event("block_error", <<"moon", point>>, FALSE))
    /\ UNCHANGED << dir, fs, clock, runs, locals, sent, fsAtStart, fsAtSave,
                    fs0, probe, faults >>

\* A host call inside the moon block raises and the block's except clause
\* catches it.  The points where that can happen: "log", the xbmc.log of a
\* branch that sends nothing (lines 144, 146); "notify", when notify() itself
\* raises because the xbmc.log of its own except clause failed (line 117),
\* the toast request having gone through or not.  The assignments after
\* notify() are then skipped.
MoonBlockRaise(point) ==
    /\ pc = "moon"
    /\ pc' = "saturn"
    /\ \/ /\ point = "log"
          /\ ~MoonDue(status, today)
          /\ log' = Append(log, Event("block_error", <<"moon", point>>, FALSE))
          /\ UNCHANGED sent
       \/ /\ point = "notify"
          /\ MoonDue(status, today)
          /\ \E ok \in BOOLEAN :
                log' = Append(Notify(log, <<"moon", today>>, ok),
                              Event("block_error", <<"moon", point>>, FALSE))
          /\ sent' = Append(sent, <<"moon", today>>)
    /\ UNCHANGED << dir, fs, clock, runs, locals, fsAtStart, fsAtSave,
                    fs0, probe, faults >>

\* A host call inside the Saturn block raises and the block's except clause
\* catches it: "log" (lines 162, 164), "stagger", the xbmc.log or xbmc.sleep
\* before the toast (lines 155, 156), or "notify" (line 158, as in the moon
\* block).  The assignments after the failing call are skipped.
SaturnBlockRaise(point) ==
    /\ pc = "saturn"
    /\ pc' = "finish"
    /\ \/ /\ point = "log"
          /\ ~SaturnDue(status, YearOf(today))
          /\ log' = Append(log, Event("block_error", <<"saturn", point>>, FALSE))
          /\ UNCHANGED sent
       \/ /\ point = "stagger"
          /\ SaturnDue(status, YearOf(today))
          /\ fullmoon_fired
          /\ log' = Append(log, Event("block_error", <<"saturn", point>>, FALSE))
          /\ UNCHANGED sent
       \/ /\ point = "notify"
          /\ SaturnDue(status, YearOf(today))
          /\ \E ok \in BOOLEAN :
                log' = Append(Notify(Stagger(log, fullmoon_fired),
                                     <<"saturn", YearOf(today),
                                       SATURN_ZODIAC_CYCLE[YearOf(today)]>>,
                                     ok),
                              Event("block_error", <<"saturn", point>>, FALSE))
          /\ sent' = Append(sent, <<"saturn", YearOf(today)>>)
    /\ UNCHANGED << dir, fs, clock, runs, locals, fsAtStart, fsAtSave,
                    fs0, probe, faults >>

\* The moon block and the Saturn block on a host whose calls may raise.
MoonBlockFails == \E point \in {"log", "notify"} : MoonBlockRaise(point)
SaturnBlockFails ==
    \E point \in {"log", "stagger", "notify"} : SaturnBlockRaise(point)

(* ------------------------------------------------------------------ *)
(* is_full_moon called on its own                                      *)
(* ------------------------------------------------------------------ *)

\* The dates and the hours of the day of the instants is_full_moon is
\* asked about.
ProbeYears ==
    (YearOf(known_full_moon) - ProbeSpan)..(YearOf(known_full_moon) + ProbeSpan)
ProbeDates ==
    { date \in ProbeYears \X (1..12) \X (1..31) :
        date[3] <= DaysInMonth(date[1], date[2]) }
ProbeHours == {0, 18}

\* An instant date + hours to ask is_full_moon about, passed as main passes
\* it, as the datetime.date of the instant (the hours are dropped), or as
\* the datetime.datetime itself.
ProbeOf(date, hours, asDate) ==
    [called |-> FALSE, date |-> date, hours |-> hours, asDate |-> asDate,
     days |-> 0, age |-> <<0, 0>>, full |-> FALSE]

\* is_full_moon(date_obj).  For a datetime.datetime, date_obj -
\* known_full_moon raises TypeError, which the except clause turns into
\* False.
ProbeMoon ==
    /\ pc = "idle"
    /\ ~probe.called
    /\ probe' = [probe EXCEPT
                   !.called = TRUE,
                   !.days = DaysPassed(probe.date),
                   !.age = IF probe.asDate THEN MoonAge(DaysPassed(probe.date))
                           ELSE <<0, 0>>,
                   !.full = IF probe.asDate THEN is_full_moon(probe.date)
                            ELSE FALSE]
    /\ UNCHANGED << dir, fs, clock, runs, pc, locals, log, sent, fsAtStart,
                    fsAtSave, fs0, faults >>

(* ------------------------------------------------------------------ *)
(* save_status(load_status()) on its own                               *)
(* ------------------------------------------------------------------ *)

\* Object texts: up to two items over a known and an unknown key (the same
\* key twice included), written with or without whitespace.
RoundTripItems ==
    { Item(k, v) : k \in {"last_fullmoon", "other"},
                   v \in {NoneVal, <<"int", 7>>, <<"float", 7>>} }
RoundTripTexts ==
    LET bodies ==
            {<<>>} \cup { <<a>> : a \in RoundTripItems }
                   \cup { <<a, b>> : a, b \in RoundTripItems }
                   \cup { <<Space, a, Space, b>> : a, b \in RoundTripItems }
    IN  { <<LBrace>> \o body \o <<RBrace>> : body \in bodies }

\* data = load_status(), then save_status(data) is called: the save_status
\* actions above carry it out.  readOk is whether open() and read() succeed.
RoundTripLoad ==
    /\ pc \in {"idle", "done"}
    /\ runs < MaxRuns
    /\ runs' = runs + 1
    /\ pc' = "save_open"
    /\ \E readOk \in BOOLEAN :
          /\ (~fs[DATA_FILE].exists => readOk)
          /\ status' = LoadStatus(fs[DATA_FILE], readOk)
          /\ faults' = IF readOk THEN faults ELSE faults \cup {"load"}
          /\ log' = << Event("load", <<>>, readOk), Event("save", <<>>, TRUE) >>
    /\ loaded' = status'
    /\ fsAtStart' = fs
    /\ fsAtSave' = fs
    /\ UNCHANGED << dir, fs, clock, today, updated, fullmoon_fired, sent,
                    fs0, probe >>

\* The process is killed (power loss, kill -9) in the middle of a run.
Crash ==
    /\ pc \notin {"idle", "done", "aborted", "crashed"}
    /\ pc' = "crashed"
    /\ UNCHANGED << dir, fs, clock, runs, locals, log, sent, fsAtStart, fsAtSave,
                    fs0, probe, faults >>

(* ------------------------------------------------------------------ *)
(* Specifications                                                      *)
(* ------------------------------------------------------------------ *)

Next ==
    \/ Start
    \/ BootWait
    \/ EnsureDirs
    \/ Load
    \/ MoonCheck
    \/ SaturnCheck
    \/ Finish
    \/ SaveOpen
    \/ SaveWrite
    \/ SaveFsync
    \/ SaveReplace
    \/ SaveCleanup

\* A step of a run that has started.
RunStep ==
    \/ BootWait
    \/ EnsureDirs
    \/ Load
    \/ MoonCheck
    \/ SaturnCheck
    \/ Finish
    \/ SaveOpen
    \/ SaveWrite
    \/ SaveFsync
    \/ SaveReplace
    \/ SaveCleanup

Spec == Init /\ [][Next]_vars

\* The same program on a host that may kill it at any step.
NextCrash == Next \/ Crash

SpecCrash == Init /\ [][NextCrash]_vars

\* The same program on a host whose calls inside the two blocks may raise.
NextHost == Next \/ MoonBlockFails \/ SaturnBlockFails

SpecHost == Init /\ [][NextHost]_vars

\* save_status(load_status()), again and again, on a state file that holds
\* a JSON object.
InitRoundTrip ==
    /\ InitFrom({ FileOf(t) : t \in RoundTripTexts })
    /\ probe = NoProbe
NextRoundTrip ==
    \/ RoundTripLoad
    \/ SaveOpen
    \/ SaveWrite
    \/ SaveFsync
    \/ SaveReplace
    \/ SaveCleanup

SpecRoundTrip == InitRoundTrip /\ [][NextRoundTrip]_vars

\* is_full_moon on its own, in a process that has not entered main.
InitMoon ==
    /\ InitMain
    /\ ~dir
    /\ \E date \in ProbeDates, hours \in ProbeHours, asDate \in BOOLEAN :
          probe = ProbeOf(date, hours, asDate)
NextMoon == ProbeMoon

SpecMoon == InitMoon /\ [][NextMoon]_vars

(* ------------------------------------------------------------------ *)
(* Reading the history                                                 *)
(* ------------------------------------------------------------------ *)

\* This run logged an event of this kind.
Did(ev) == \E i \in DOMAIN log : log[i].ev = ev

\* This run requested the moon toast / the Saturn toast.
MoonToast(i) == log[i].ev = "notify" /\ log[i].arg[1] = "moon"
SaturnToast(i) == log[i].ev = "notify" /\ log[i].arg[1] = "saturn"
SentMoon == \E i \in DOMAIN log : MoonToast(i)
SentSaturn == \E i \in DOMAIN log : SaturnToast(i)

\* Number of moon toasts requested on a date, of Saturn toasts in a year,
\* over all runs.
MoonCount(date) ==
    Cardinality({ i \in DOMAIN sent :
                    sent[i][1] = "moon" /\ sent[i][2] = date })
SaturnCount(year) ==
    Cardinality({ i \in DOMAIN sent :
                    sent[i][1] = "saturn" /\ sent[i][2] = year })

Dates == { DateSeq[i] : i \in DOMAIN DateSeq }
Years == { YearOf(d) : d \in Dates }

\* No save_status call has failed and no read of the state file has failed.
NoIOFault == faults \cap {"load", "save"} = {}

\* The run is past its moon block / its Saturn block.
PastMoon ==
    pc \in {"saturn", "finish", "save_open", "save_write", "save_replace",
            "save_except", "done"}
PastSaturn ==
    pc \in {"finish", "save_open", "save_write", "save_replace",
            "save_except", "done"}

(* ------------------------------------------------------------------ *)
(* C1                                                                  *)
(* ------------------------------------------------------------------ *)

C3_AbortStopsRun ==
    Did("abort") =>
        /\ pc = "aborted"
        /\ Len(log) = 1
        /\ status = <<>>
        /\ today = NoDate
        /\ ~updated
        /\ ~fullmoon_fired
        /\ fs = fsAtStart

\* A run aborted after an earlier run notified and saved.
C3_Witness ==
    /\ pc = "aborted"
    /\ runs = 2
    /\ sent # <<>>
    /\ fs[DATA_FILE].exists
    /\ fs[DATA_FILE] # fs0[DATA_FILE]

(* ------------------------------------------------------------------ *)
(* C4                                                                  *)
(* ------------------------------------------------------------------ *)

\* The state file before the first run is absent or a complete JSON object.
InitFileOk ==
    ~fs0[DATA_FILE].exists \/ IsObjectText(fs0[DATA_FILE].text)

\* C4: when the state file starts absent or as a complete object, then in
\* every state (each step of save_status, and after a crash at any step)
\* the state file, if present, is a complete JSON object; it is what it was
\* when save_status was called (absent, or the previous file) or it is the
\* complete new mapping; and load_status at that point returns the previous
\* mapping or the new one, never a part.
C4_SaveAtomic ==
    InitFileOk =>
        LET f == fs[DATA_FILE]
            before == fsAtSave[DATA_FILE]
        IN  /\ f.exists => IsObjectText(f.text)
            /\ f = before \/ (f.exists /\ f.text = Dumps(status))
            /\ f = before \/ LoadStatus(f, TRUE) = status

\* A crash in the middle of writing the temp file, over an existing state
\* file that differs from the mapping being saved.
C4_Witness ==
    /\ pc = "crashed"
    /\ InitFileOk
    /\ fs[DATA_FILE].exists
    /\ fs[TmpFile].exists
    /\ Len(fs[TmpFile].text) > 0
    /\ Len(fs[TmpFile].text) < Len(Dumps(status))
    /\ Loads(fs[DATA_FILE].text) # status

(* ------------------------------------------------------------------ *)
(* C5                                                                  *)
(* ------------------------------------------------------------------ *)

\* The last event of the run is the removal of the temp file, and it went
\* through (or there was nothing to remove).
CleanedUp ==
    /\ log # <<>>
    /\ log[Len(log)].ev = "cleanup"
    /\ log[Len(log)].ok

\* C5: when a step of save_status fails, the failure stays inside
\* save_status: the run goes to the cleanup and from there to its normal
\* end; the state file is what it was when save_status was called; and once
\* the cleanup's removal has gone through, the temp file is gone.
C5_SaveFailureContained ==
    Did("save_error") =>
        /\ pc \in {"save_except", "done"}
        /\ (pc = "save_except" => ENABLED SaveCleanup)
        /\ (pc = "done" => Did("cleanup"))
        /\ fs[DATA_FILE] = fsAtSave[DATA_FILE]
        /\ (CleanedUp => ~fs[TmpFile].exists)

\* The rename failed after the temp file was written in full, over an
\* existing state file; the temp file was removed and the run ended.
C5_Witness ==
    /\ pc = "done"
    /\ \E i \in DOMAIN log :
          log[i].ev = "save_error" /\ log[i].arg = <<"save_replace">>
    /\ CleanedUp
    /\ fs[DATA_FILE].exists
    /\ ~fs[TmpFile].exists

(* ------------------------------------------------------------------ *)
(* C6                                                                  *)
(* ------------------------------------------------------------------ *)

\* The items of a text, whitespace and braces left out.
ItemsOf(text) == SelectSeq(text, LAMBDA t : t[1] = "kv")

\* d holds exactly the keys of the items, each with the value of the last
\* item of that key.
HoldsItems(d, items) ==
    /\ Keys(d) = { items[i][2] : i \in DOMAIN items }
    /\ \A i \in DOMAIN items :
          (\A j \in DOMAIN items : j > i => items[j][2] # items[i][2])
             => Get(d, items[i][2]) = items[i][3]
    /\ \A i, j \in DOMAIN d : d[i][1] = d[j][1] => i = j

\* The read of the state file in this run's load_status went through.
ReadOk == \E i \in DOMAIN log : log[i].ev = "load" /\ log[i].ok

\* C6: load_status returns to main in every case (the run goes on to the
\* moon check with a mapping); the mapping is empty when the state file is
\* absent, unreadable, not valid JSON, or valid JSON that is not an object,
\* and is exactly the stored mapping otherwise.  A run that loaded the empty
\* mapping sends the moon toast exactly on a full moon and the Saturn toast
\* exactly in a year of the table, as a first-ever run does.
C6_LoadNeverRaises ==
    LET f == fsAtStart[DATA_FILE]
    IN  Did("load") =>
              /\ PastMoon \/ pc = "moon"
              /\ ~f.exists => loaded = <<>>
              /\ ~ReadOk => loaded = <<>>
              /\ (f.exists /\ IsListText(f.text)) => loaded = <<>>
              /\ (f.exists /\ ~IsListText(f.text) /\ ~IsObjectText(f.text))
                    => loaded = <<>>
              /\ (f.exists /\ ReadOk /\ IsObjectText(f.text))
                    => HoldsItems(loaded, ItemsOf(f.text))
              /\ (loaded = <<>> /\ PastMoon)
                    => (SentMoon <=> is_full_moon(today))
              /\ (loaded = <<>> /\ PastSaturn)
                    => (SentSaturn <=>
                          YearOf(today) \in DOMAIN SATURN_ZODIAC_CYCLE)

\* A run over a state file cut short (invalid JSON) that holds an item: it
\* loaded the empty mapping, sent both toasts and ended.
C6_Witness ==
    /\ pc = "done"
    /\ fsAtStart[DATA_FILE].exists
    /\ ~IsObjectText(fsAtStart[DATA_FILE].text)
    /\ ItemsOf(fsAtStart[DATA_FILE].text) # <<>>
    /\ ReadOk
    /\ loaded = <<>>
    /\ SentMoon
    /\ SentSaturn

(* ------------------------------------------------------------------ *)
(* C7                                                                  *)
(* ------------------------------------------------------------------ *)

\* C7: in a run past its moon block, the moon toast was requested exactly
\* when the loaded last_fullmoon is not today's date string and today is a
\* full moon; then last_fullmoon is today's date string and the state is
\* dirty; otherwise last_fullmoon is as loaded and the state is dirty only
\* by the Saturn block.
C7_MoonRule ==
    PastMoon =>
        LET was == Get(loaded, "last_fullmoon")
            due == was # StrOfDate(today) /\ is_full_moon(today)
        IN  /\ SentMoon <=> due
            /\ SentMoon <=> fullmoon_fired
            /\ SentMoon =>
                  /\ Get(status, "last_fullmoon") = StrOfDate(today)
                  /\ updated
            /\ ~SentMoon =>
                  /\ Get(status, "last_fullmoon") = was
                  /\ ("last_fullmoon" \in Keys(status))
                        <=> ("last_fullmoon" \in Keys(loaded))
                  /\ pc = "saturn" => ~updated
                  /\ updated => SentSaturn

\* On a full moon, with a last_fullmoon of another day loaded: the toast
\* was requested and the key overwritten.
C7_Witness ==
    /\ pc = "saturn"
    /\ SentMoon
    /\ "last_fullmoon" \in Keys(loaded)
    /\ Get(loaded, "last_fullmoon")[1] = "str"
    /\ Get(status, "last_fullmoon") = StrOfDate(today)

(* ------------------------------------------------------------------ *)
(* C8                                                                  *)
(* ------------------------------------------------------------------ *)

\* a != b in Python, for a loaded value a and the int b
Differs(a, b) ==
    IF a[1] \in {"int", "float"} THEN a[2] # b ELSE TRUE

\* C8: in a run past its Saturn block, the Saturn toast was requested
\* exactly when current_year is a key of SATURN_ZODIAC_CYCLE and the loaded
\* last_saturn_year differs from it; then the message names the table's
\* sign for the year, last_saturn_year is current_year and the state is
\* dirty; otherwise nothing is sent and last_saturn_year is as loaded.
C8_SaturnRule ==
    PastSaturn =>
        LET year == YearOf(today)
            was  == Get(loaded, "last_saturn_year")
            due  == /\ year \in DOMAIN SATURN_ZODIAC_CYCLE
                    /\ Differs(was, year)
        IN  /\ SentSaturn <=> due
            /\ \A i \in DOMAIN log : SaturnToast(i) =>
                  log[i].arg = <<"saturn", year, SATURN_ZODIAC_CYCLE[year]>>
            /\ SentSaturn =>
                  /\ Get(status, "last_saturn_year") = <<"int", year>>
                  /\ updated
            /\ ~SentSaturn =>
                  /\ Get(status, "last_saturn_year") = was
                  /\ ("last_saturn_year" \in Keys(status))
                        <=> ("last_saturn_year" \in Keys(loaded))
                  /\ updated <=> SentMoon

\* In 2025, with last_saturn_year loaded as the string "2025": the toast
\* names Aries and the key becomes the int 2025.
C8_Witness ==
    /\ pc = "finish"
    /\ Get(loaded, "last_saturn_year") = <<"str", 2025>>
    /\ \E i \in DOMAIN log : log[i].arg = <<"saturn", 2025, "Aries">>
    /\ Get(status, "last_saturn_year") = <<"int", 2025>>

(* ------------------------------------------------------------------ *)
(* C9                                                                  *)
(* ------------------------------------------------------------------ *)

\* C9: a run sleeps for the stagger only after its moon toast, at most
\* once, and the next thing it does is the Saturn toast; a run past its
\* Saturn block has slept exactly when it sent both toasts, in the order
\* moon toast, sleep, Saturn toast.
C9_StaggerRule ==
    /\ \A i \in DOMAIN log : log[i].ev = "sleep" =>
          /\ i > 1
          /\ MoonToast(i - 1)
          /\ i < Len(log)
          /\ SaturnToast(i + 1)
          /\ \A j \in DOMAIN log : log[j].ev = "sleep" => j = i
    /\ PastSaturn => (Did("sleep") <=> (SentMoon /\ SentSaturn))

\* A run that sent the moon toast, slept, and sent the Saturn toast.
C9_Witness ==
    /\ pc = "done"
    /\ \E i \in DOMAIN log :
          /\ MoonToast(i)
          /\ log[i + 1].ev = "sleep"
          /\ SaturnToast(i + 2)

(* ------------------------------------------------------------------ *)
(* C10                                                                 *)
(* ------------------------------------------------------------------ *)

\* C10: the stagger requested between the two toasts of a run is 2.5 s
\* (2500 ms).
C10_StaggerIs2500ms ==
    \A i \in DOMAIN log :
        log[i].ev = "sleep" => log[i].arg = <<DocumentedStaggerMs>>

(* ------------------------------------------------------------------ *)
(* C11                                                                 *)
(* ------------------------------------------------------------------ *)

\* Number of events of a kind in this run.
Count(ev) == Cardinality({ i \in DOMAIN log : log[i].ev = ev })

\* The run is past the test of `updated` at the end of main.
PastFinish ==
    pc \in {"save_open", "save_write", "save_replace", "save_except", "done"}

\* C11: a run that reaches the end of main has called save_status once if
\* it sent a notification and not at all otherwise; the call comes after
\* every notification of the run; the mapping handed to save_status, which
\* is the text a successful save leaves in the state file, carries
\* last_fullmoon = today when the moon toast was sent and last_saturn_year =
\* the current year when the Saturn toast was sent; and a run that sent
\* nothing has changed neither the state file nor the temp file.
C11_SaveOnceIfNotified ==
    /\ Count("save") <= 1
    /\ PastFinish => (Did("save") <=> (SentMoon \/ SentSaturn))
    /\ \A i, j \in DOMAIN log :
          (log[i].ev = "save" /\ log[j].ev = "notify") => j < i
    /\ Did("save") =>
          /\ SentMoon => Get(status, "last_fullmoon") = StrOfDate(today)
          /\ SentSaturn =>
                Get(status, "last_saturn_year") = <<"int", YearOf(today)>>
          /\ Did("saved") => fs[DATA_FILE] = FileOf(Dumps(status))
    /\ (runs > 0 /\ ~SentMoon /\ ~SentSaturn) => fs = fsAtStart

\* A run that sent both toasts and made one save, which succeeded: the
\* state file holds the two updates.
C11_Witness ==
    /\ pc = "done"
    /\ SentMoon
    /\ SentSaturn
    /\ Count("save") = 1
    /\ Did("saved")
    /\ Get(Loads(fs[DATA_FILE].text), "last_fullmoon") = StrOfDate(today)
    /\ Get(Loads(fs[DATA_FILE].text), "last_saturn_year")
          = <<"int", YearOf(today)>>

(* ------------------------------------------------------------------ *)
(* C12                                                                 *)
(* ------------------------------------------------------------------ *)

\* This run logged a failure caught by the except clause of a block.
BlockError(block) ==
    \E i \in DOMAIN log :
        log[i].ev = "block_error" /\ log[i].arg[1] = block

\* C12: a failure raised inside the moon block is caught: the run goes on
\* to the Saturn block, which (when it does not fail itself) sends its toast
\* exactly when it is due and then records the year; a failure raised inside
\* the Saturn block is caught and leaves a moon update of the run in place:
\* last_fullmoon = today stays in the mapping, save_status is called with
\* it, and a save that succeeds puts it in the state file.  After either
\* failure the run is on its way to its normal end or at it.
C12_BlocksIsolated ==
    /\ pc # "raised"
    /\ BlockError("moon") =>
          /\ PastMoon
          /\ (PastSaturn /\ ~BlockError("saturn")) =>
                /\ SentSaturn <=> SaturnDue(loaded, YearOf(today))
                /\ SentSaturn =>
                      /\ Get(status, "last_saturn_year")
                            = <<"int", YearOf(today)>>
                      /\ updated
    /\ BlockError("saturn") =>
          /\ PastSaturn
          /\ fullmoon_fired =>
                /\ Get(status, "last_fullmoon") = StrOfDate(today)
                /\ updated
                /\ PastFinish => Did("save")
                /\ Did("saved") =>
                      Get(Loads(fs[DATA_FILE].text), "last_fullmoon")
                         = StrOfDate(today)

\* A run whose moon block failed and whose Saturn block then sent its toast
\* and saved the year.
C12_Witness ==
    /\ pc = "done"
    /\ BlockError("moon")
    /\ ~BlockError("saturn")
    /\ SentSaturn
    /\ Did("saved")
    /\ Get(Loads(fs[DATA_FILE].text), "last_saturn_year")
          = <<"int", YearOf(today)>>

\* A run whose moon block sent its toast, whose Saturn block failed, and
\* which saved the moon update.
C12_WitnessSaturn ==
    /\ pc = "done"
    /\ BlockError("saturn")
    /\ fullmoon_fired
    /\ Did("saved")
    /\ Get(Loads(fs[DATA_FILE].text), "last_fullmoon") = StrOfDate(today)

(* ------------------------------------------------------------------ *)
(* C13                                                                 *)
(* ------------------------------------------------------------------ *)

\* The keys main reads and writes.
KnownKeys == {"last_fullmoon", "last_saturn_year"}

\* The run has called load_status.
PastLoad == PastMoon \/ pc = "moon"

\* C13: from the load of a run on, through its end (with no save, a save
\* that succeeds or a save that fails), the state file is a JSON object that
\* holds every key load_status returned, other than last_fullmoon and
\* last_saturn_year, with the value load_status returned for it.
C13_UnknownKeysSurvive ==
    PastLoad =>
        \A k \in Keys(loaded) \ KnownKeys :
            /\ fs[DATA_FILE].exists
            /\ IsObjectText(fs[DATA_FILE].text)
            /\ k \in Keys(Loads(fs[DATA_FILE].text))
            /\ Get(Loads(fs[DATA_FILE].text), k) = Get(loaded, k)

\* A run that loaded an unknown key, sent a toast and saved: the file is
\* a new text and still holds the key.
C13_Witness ==
    /\ pc = "done"
    /\ Did("saved")
    /\ "other" \in Keys(loaded)
    /\ fs[DATA_FILE] # fsAtStart[DATA_FILE]
    /\ Get(Loads(fs[DATA_FILE].text), "other") = <<"int", 7>>

\* A run that loaded an unknown key and whose save failed.
C13_WitnessFailedSave ==
    /\ pc = "done"
    /\ Did("save_error")
    /\ "other" \in Keys(loaded)

(* ------------------------------------------------------------------ *)
(* C14                                                                 *)
(* ------------------------------------------------------------------ *)

\* The date is before the reference date.
BeforeEpoch(date) ==
    \/ date[1] < known_full_moon[1]
    \/ /\ date[1] = known_full_moon[1]
       /\ \/ date[2] < known_full_moon[2]
          \/ date[2] = known_full_moon[2] /\ date[3] < known_full_moon[3]

\* 14.27 < age < 15.27, on <<integer part, fraction in 10^-8>>
InFullWindow(age) ==
    \/ age[1] = 14 /\ age[2] > 27 * 10 ^ 6
    \/ age[1] = 15 /\ age[2] < 27 * 10 ^ 6

\* C14: for every date, before or after 2000-01-06, is_full_moon works on
\* the signed whole-day difference to 2000-01-06 (0 for that date, one more
\* for each next day, so negative exactly for the dates before it); its
\* moon_age lies in [0, 29.53058867) and differs from
\* the day difference by a whole number of lunar cycles; and its result is
\* true exactly when |moon_age - 14.77| < 0.5.
C14_FullMoonRule ==
    (probe.called /\ probe.asDate) =>
        /\ (probe.days < 0) <=> BeforeEpoch(probe.date)
        /\ (probe.date = known_full_moon) => probe.days = 0
        /\ DaysPassed(NextDay(probe.date)) = probe.days + 1
        /\ InCycle(probe.age)
        /\ \E k \in (0 - 40 * (ProbeSpan + 1))..(40 * (ProbeSpan + 1)) :
              AgeWith(probe.days, k) = probe.age
        /\ probe.full <=> InFullWindow(probe.age)

\* A date before the reference date for which is_full_moon is true.
C14_Witness ==
    /\ probe.called
    /\ probe.asDate
    /\ probe.days < 0
    /\ probe.full

(* ------------------------------------------------------------------ *)
(* C15                                                                 *)
(* ------------------------------------------------------------------ *)

\* is_full_moon has been asked about the instant `days` whole days and
\* `hours` hours after 2000-01-06 00:00.
ProbedAt(days, hours) ==
    /\ probe.called
    /\ probe.date = AddDays(known_full_moon, days)
    /\ probe.hours = hours

\* C15 as stated: is_full_moon evaluated at 2000-01-06 plus 14 days 18 hours
\* returns true.
C15_Plus14d18hIsFull == ProbedAt(14, 18) => probe.full

\* C15, amended: is_full_moon sees whole days only.  At 2000-01-06 plus 14
\* days 18 hours it returns false, whether the instant is passed as its
\* date (2000-01-20, moon age 14.0) or as a datetime; for the date
\* 2000-01-06 plus 15 days (2000-01-21, moon age 15.0) it returns true.
C15_Plus15dIsFull ==
    /\ ProbedAt(14, 18) => ~probe.full
    /\ (ProbedAt(15, 0) /\ probe.asDate) =>
          /\ probe.days = 15
          /\ probe.age = <<15, 0>>
          /\ probe.full

\* is_full_moon was asked about the date 2000-01-21 and said yes.
C15_Witness ==
    /\ ProbedAt(15, 0)
    /\ probe.asDate
    /\ probe.date = <<2000, 1, 21>>
    /\ probe.full

\* is_full_moon was asked about 2000-01-20, the date of the instant 14 days
\* 18 hours after the reference date.
C15_Witness14d18h ==
    /\ ProbedAt(14, 18)
    /\ probe.asDate
    /\ probe.date = <<2000, 1, 20>>
    /\ probe.age = <<14, 0>>

(* ------------------------------------------------------------------ *)
(* C19                                                                 *)
(* ------------------------------------------------------------------ *)

\* C19: for every date d of the range, is_full_moon(d) and
\* is_full_moon(d + 1 day) are not both true, and is_full_moon is true for
\* at least one of the 30 dates d, d + 1, ..., d + 29; after a date for which
\* it is true, it is false for the next 28 dates.
C19_FullMoonIsolated ==
    (probe.called /\ probe.asDate) =>
        /\ ~(probe.full /\ is_full_moon(NextDay(probe.date)))
        /\ \E n \in 0..29 :
              is_full_moon(AddDays(probe.date, n))
        /\ probe.full =>
              \A n \in 1..(LunarInt - 1) :
                  ~is_full_moon(AddDays(probe.date, n))

\* A date before the reference date for which is_full_moon is true, the
\* day after it being in the range too.
C19_Witness ==
    /\ probe.called
    /\ probe.asDate
    /\ probe.full
    /\ probe.days < 0
    /\ probe.date[3] < 28
    /\ ~is_full_moon(NextDay(probe.date))

(* ------------------------------------------------------------------ *)
(* C16                                                                 *)
(* ------------------------------------------------------------------ *)

\* C16: the state file holding a JSON object at the start, after the
\* second and every later save_status(load_status()), all loads and saves
\* so far having gone through, the state file is the file the save before it
\* left, and load_status of it returns what the first load_status returned.
C16_RoundTripIdempotent ==
    (/\ runs >= 2
     /\ pc = "done"
     /\ faults = {}
     /\ IsObjectText(fs0[DATA_FILE].text)) =>
        /\ Did("saved")
        /\ fs[DATA_FILE] = fsAtStart[DATA_FILE]
        /\ ~fs[TmpFile].exists
        /\ LoadStatus(fs[DATA_FILE], TRUE) = LoadStatus(fs0[DATA_FILE], TRUE)

\* Two round trips from a text with whitespace and the same key twice: the
\* first save changed the file, the second left it as the first wrote it.
C16_Witness ==
    /\ runs = 2
    /\ pc = "done"
    /\ faults = {}
    /\ Did("saved")
    /\ fs[DATA_FILE] # fs0[DATA_FILE]
    /\ Len(fs[DATA_FILE].text) = 3
    /\ Len(fs0[DATA_FILE].text) = 6

(* ------------------------------------------------------------------ *)
(* C17                                                                 *)
(* ------------------------------------------------------------------ *)

\* The item of a key in a dict: whether the key is there, and its value.
ItemAt(d, key) == << key \in Keys(d), Get(d, key) >>

\* C17: the moon block leaves last_saturn_year as load_status returned it
\* (absent, or the same value), the Saturn block leaves last_fullmoon as the
\* moon block left it, and a key is added or changed only by its own block
\* and only when that block sends its toast.  A run that loads the empty
\* mapping on a full-moon date of a year outside SATURN_ZODIAC_CYCLE sends
\* one notification, the moon toast, and the state file it saves holds
\* last_fullmoon = today and nothing else.
C17_OwnKeyOnly ==
    /\ pc = "saturn" =>
          ItemAt(status, "last_saturn_year") = ItemAt(loaded, "last_saturn_year")
    /\ PastMoon =>
          ItemAt(status, "last_fullmoon") =
             IF SentMoon THEN << TRUE, StrOfDate(today) >>
             ELSE ItemAt(loaded, "last_fullmoon")
    /\ PastSaturn =>
          ItemAt(status, "last_saturn_year") =
             IF SentSaturn THEN << TRUE, <<"int", YearOf(today)>> >>
             ELSE ItemAt(loaded, "last_saturn_year")
    /\ (/\ PastSaturn
        /\ loaded = <<>>
        /\ is_full_moon(today)
        /\ YearOf(today) \notin DOMAIN SATURN_ZODIAC_CYCLE) =>
          /\ Count("notify") = 1
          /\ SentMoon
          /\ status = << <<"last_fullmoon", StrOfDate(today)>> >>
          /\ Did("saved") =>
                /\ fs[DATA_FILE].exists
                /\ Loads(fs[DATA_FILE].text) = status

\* Scenario A: no state file, a full-moon date of 2024; the run has saved.
C17_Witness ==
    /\ pc = "done"
    /\ ~fsAtStart[DATA_FILE].exists
    /\ is_full_moon(today)
    /\ YearOf(today) \notin DOMAIN SATURN_ZODIAC_CYCLE
    /\ Did("saved")
    /\ Count("notify") = 1
    /\ Keys(Loads(fs[DATA_FILE].text)) = {"last_fullmoon"}

(* ------------------------------------------------------------------ *)
(* C18                                                                 *)
(* ------------------------------------------------------------------ *)

\* The place of a step in main, in program order.
Rank(p) ==
    CASE p = "boot" -> 1
      [] p = "ensure" -> 2
      [] p = "load" -> 3
      [] p = "moon" -> 4
      [] p = "saturn" -> 5
      [] p = "finish" -> 6
      [] p = "save_open" -> 7
      [] p = "save_write" -> 8
      [] p = "save_replace" -> 9
      [] p = "save_except" -> 10
      [] OTHER -> 11

\* A run is under way.
Running == pc \notin {"idle", "done", "aborted", "crashed"}

\* The run is past the boot wait.
PastBoot == pc \notin {"idle", "boot", "crashed"}

\* C18: in every state of a run, main can take a step, and every step of a
\* run moves main forward in program order, or writes one more piece of the
\* text save_status has to write; so a run ends, at the aborted exit or at
\* the end of main, after a bounded number of steps and never returns to an
\* earlier step.  The aborted exit is reached from the boot wait only.  A
\* run sends at most 2 notifications, sleeps at most once and calls
\* save_status at most once, whatever load, notify and save failures
\* occur.
C18_RunTerminates ==
    /\ [](Running => ENABLED RunStep)
    /\ [][Running =>
            \/ Rank(pc') > Rank(pc)
            \/ /\ pc = "save_write"
               /\ pc' = "save_write"
               /\ Len(fs'[TmpFile].text) > Len(fs[TmpFile].text)
               /\ Len(fs'[TmpFile].text) <= Len(Dumps(status))
               /\ status' = status]_vars
    /\ [][(PastBoot /\ pc # "aborted") => pc' # "aborted"]_vars
    /\ [](/\ Count("notify") <= 2
          /\ Count("sleep") <= 1
          /\ Count("save") <= 1
          /\ Len(Dumps(status)) <= Cardinality(Keys(loaded) \cup KnownKeys) + 2)

\* A run that failed to read the state file, sent both toasts with one
\* sleep between them, failed to save, and is at the end of main.
C18_Witness ==
    /\ pc = "done"
    /\ faults = {"load", "save"}
    /\ Count("notify") = 2
    /\ Count("sleep") = 1
    /\ Count("save") = 1
    /\ Did("save_error")
    /\ \E i \in DOMAIN log : log[i].ev = "notify" /\ ~log[i].ok

(* ------------------------------------------------------------------ *)
(* C20                                                                 *)
(* ------------------------------------------------------------------ *)

\* notify() was called for the moon toast of a date / the Saturn toast of a
\* year, in this run or an earlier one.
MoonIssued(date) ==
    \E i \in DOMAIN sent : sent[i] = <<"moon", date>>
SaturnIssued(year) ==
    \E i \in DOMAIN sent : sent[i] = <<"saturn", year>>

\* What a state file text records is backed by notifications issued.
Backed(text) ==
    LET d == Loads(text)
    IN  /\ "last_fullmoon" \in Keys(d) =>
              \E date \in Dates :
                  /\ Get(d, "last_fullmoon") = StrOfDate(date)
                  /\ is_full_moon(date)
                  /\ MoonIssued(date)
        /\ "last_saturn_year" \in Keys(d) =>
              \E year \in DOMAIN SATURN_ZODIAC_CYCLE :
                  /\ Get(d, "last_saturn_year") = <<"int", year>>
                  /\ SaturnIssued(year)

\* C20: when the first run found no state file or an empty object, then in
\* every state of every run (runs aborted, saves failing, the process killed
\* at any step) the state file, if there is one, is a JSON object in which a
\* last_fullmoon value is the date string of a date for which is_full_moon
\* is true and the moon toast was issued before, and a last_saturn_year
\* value is a year of SATURN_ZODIAC_CYCLE for which the Saturn toast was
\* issued before.
C20_RecordsOnlySent ==
    (~fs0[DATA_FILE].exists \/ fs0[DATA_FILE].text = <<LBrace, RBrace>>) =>
        \/ fs[DATA_FILE] = fs0[DATA_FILE]
        \/ /\ fs[DATA_FILE].exists
           /\ IsObjectText(fs[DATA_FILE].text)
           /\ Backed(fs[DATA_FILE].text)

\* There was no state file at first; the state file records both toasts
\* and the second run has been killed.
C20_Witness ==
    /\ ~fs0[DATA_FILE].exists
    /\ runs = 2
    /\ fs[DATA_FILE].exists
    /\ KnownKeys \subseteq Keys(Loads(fs[DATA_FILE].text))
    /\ Backed(fs[DATA_FILE].text)
    /\ pc = "crashed"

====
